---------------------------- MODULE Spec2Model ----------------------------
(***************************************************************************)
(* Model of the audio ingestion server (src/server/server.py): the turn    *)
(* detector, the turn quality gate and the two per-connection handlers     *)
(* (record mode and assistant mode).                                       *)
(***************************************************************************)
EXTENDS Integers, Sequences, FiniteSets, TLC

VARIABLES
    sess,         \* connection id -> the handler coroutine's locals and its connection
    mode,         \* "record" | "assistant" | "detector" | "gate" | ...: what is being driven
    asr_enabled,  \* asr.enabled (server.py main, WhisperASR.__init__)
    detector,     \* the TurnDetector object
    hist,         \* history: of a stand-alone detector's feeds, of a scripted session's steps
    gate_in,      \* TurnStats handed to should_drop_turn
    gate_out,     \* <<what should_drop_turn returned>>, or <<>> before the call
    client        \* the ESP32 client program (src/esp32_client): its globals and position

vars == <<sess, mode, asr_enabled, detector, hist, gate_in, gate_out, client>>

(***************************************************************************)
(* Bounds of the model.                                                    *)
(***************************************************************************)
MaxParam == 3     \* speech_frames and silence_frames range over 1..MaxParam
MaxFeeds == 7     \* chunks fed to a stand-alone detector
MaxGateFrames == 20  \* chunks added to a stand-alone TurnStats
MaxStarts == 1       \* well-formed start messages a client sends
MaxTurns == 2        \* turns a client starts
MaxTurnFrames == 28  \* chunks a client sends within one turn
MaxInbox == 1        \* messages queued while the handler is suspended
MaxExtraSpeech == 9  \* chunks of speech a scripted client adds to the shortest turn

(***************************************************************************)
(* Frames: sequences of bytes, 16-bit little-endian samples.               *)
(***************************************************************************)
S16LE(v) ==
    LET u == IF v < 0 THEN v + 65536 ELSE v
    IN  <<u % 256, u \div 256>>

ToneFrame(a) == S16LE(a) \o S16LE(-a)

RECURSIVE IsqrtSearch(_, _, _)
IsqrtSearch(x, lo, hi) ==
    IF lo >= hi THEN lo
    ELSE LET mid == (lo + hi + 1) \div 2
         IN  IF mid * mid <= x THEN IsqrtSearch(x, mid, hi)
             ELSE IsqrtSearch(x, lo, mid - 1)

\* int(x ** 0.5) for 0 <= x <= 32768^2
Isqrt(x) == IsqrtSearch(x, 0, 32768)

Sample(frame, i) ==
    LET v == frame[i] + frame[i + 1] * 256
    IN  IF v >= 32768 THEN v - 65536 ELSE v

RECURSIVE SumSquares(_, _, _)
SumSquares(frame, k, samples) ==
    IF k > samples THEN 0
    ELSE LET v == Sample(frame, 2 * k - 1)
         IN  v * v + SumSquares(frame, k + 1, samples)

frame_rms_s16le(frame) ==
    LET samples == Len(frame) \div 2
    IN  IF samples <= 0 THEN 0
        ELSE Isqrt(SumSquares(frame, 1, samples) \div samples)

(***************************************************************************)
(* TurnDetector                                                            *)
(***************************************************************************)
NewTurnDetector(threshold, speech_frames, silence_frames) ==
    [threshold |-> threshold, speech_frames |-> speech_frames,
     silence_frames |-> silence_frames,
     active |-> FALSE, speech_count |-> 0, silence_count |-> 0]

DefaultTurnDetector == NewTurnDetector(900, 6, 18)

Voiced(d, rms) == rms >= d.threshold

\* mutant: the onset run must exceed speech_frames
IdleVoiced_Late(d) ==
    LET c == d.speech_count + 1
    IN  IF c > d.speech_frames
        THEN [det |-> [d EXCEPT !.speech_count = c, !.active = TRUE,
                                !.silence_count = 0],
              event |-> "turn_start"]
        ELSE [det |-> [d EXCEPT !.speech_count = c], event |-> "none"]

IdleVoiced(d) ==
    LET c == d.speech_count + 1
    IN  IF c >= d.speech_frames
        THEN [det |-> [d EXCEPT !.speech_count = c, !.active = TRUE,
                                !.silence_count = 0],
              event |-> "turn_start"]
        ELSE [det |-> [d EXCEPT !.speech_count = c], event |-> "none"]

\* mutant: an unvoiced chunk does not reset the speech counter
IdleUnvoiced_NoReset(d) ==
    [det |-> d, event |-> "none"]

IdleUnvoiced(d) ==
    [det |-> [d EXCEPT !.speech_count = 0], event |-> "none"]

\* mutant: a voiced chunk does not reset the silence counter
SpeakingVoiced_NoReset(d) ==
    [det |-> d, event |-> "none"]

SpeakingVoiced(d) ==
    [det |-> [d EXCEPT !.silence_count = 0], event |-> "none"]

SpeakingUnvoiced(d) ==
    LET c == d.silence_count + 1
    IN  IF c >= d.silence_frames
        THEN [det |-> [d EXCEPT !.silence_count = c, !.active = FALSE,
                                !.speech_count = 0],
              event |-> "turn_end"]
        ELSE [det |-> [d EXCEPT !.silence_count = c], event |-> "none"]

\* TurnDetector.feed: returns the new detector, the event, rms and voiced
Feed(d, frame) ==
    LET rms    == frame_rms_s16le(frame)
        voiced == Voiced(d, rms)
        r      == IF ~d.active
                  THEN IF voiced THEN IdleVoiced(d) ELSE IdleUnvoiced(d)
                  ELSE IF voiced THEN SpeakingVoiced(d) ELSE SpeakingUnvoiced(d)
    IN  [det |-> r.det, event |-> r.event, rms |-> rms, voiced |-> voiced]

(***************************************************************************)
(* TurnStats and the turn quality gate                                     *)
(***************************************************************************)
NewTurnStats == [total_frames |-> 0, voiced_frames |-> 0, max_rms |-> 0, rms_sum |-> 0]

StatsAdd(s, rms, voiced) ==
    [total_frames  |-> s.total_frames + 1,
     rms_sum       |-> s.rms_sum + rms,
     voiced_frames |-> IF voiced THEN s.voiced_frames + 1 ELSE s.voiced_frames,
     max_rms       |-> IF rms > s.max_rms THEN rms ELSE s.max_rms]

mean_rms(s) ==
    IF s.total_frames <= 0 THEN 0 ELSE s.rms_sum \div s.total_frames

\* voiced_ratio as an exact fraction [num, den]; 0.0 is 0/1
voiced_ratio(s) ==
    IF s.total_frames <= 0 THEN [num |-> 0, den |-> 1]
    ELSE [num |-> s.voiced_frames, den |-> s.total_frames]

\* fraction r < p / q, for positive denominators
RatioLess(r, p, q) == r.num * q < p * r.den

\* round(ratio, 3), in thousandths
Round3(r) == (2000 * r.num + r.den) \div (2 * r.den)

FRAME_MS == 20
MIN_TURN_MS == 350
MIN_VOICED_RATIO_PCT == 35
MIN_PEAK_RMS == 1200

TooShort(s) == s.total_frames * FRAME_MS < MIN_TURN_MS

TooUnvoiced(s) == RatioLess(voiced_ratio(s), MIN_VOICED_RATIO_PCT, 100)

\* mutant: the loudness test looks at the mean instead of the peak
TooQuiet_Mean(s) == mean_rms(s) < MIN_PEAK_RMS

TooQuiet(s) == s.max_rms < MIN_PEAK_RMS

should_drop_turn(s) ==
    [drop |-> TooShort(s) \/ TooUnvoiced(s) \/ TooQuiet(s),
     info |-> [turn_ms      |-> s.total_frames * FRAME_MS,
               voiced_ratio |-> Round3(voiced_ratio(s)),
               max_rms      |-> s.max_rms,
               mean_rms     |-> mean_rms(s),
               too_short    |-> TooShort(s),
               too_unvoiced |-> TooUnvoiced(s),
               too_quiet    |-> TooQuiet(s)]]

(***************************************************************************)
(* A stand-alone TurnStats accumulator handed to the gate.                 *)
(***************************************************************************)
GateRms == {0, 1199, 1200}

InitGate ==
    /\ mode = "gate"
    /\ sess = <<>>
    /\ asr_enabled = FALSE
    /\ detector = DefaultTurnDetector
    /\ hist = <<>>
    /\ gate_in = NewTurnStats
    /\ gate_out = <<>>
    /\ client = <<>>

GateAdd ==
    /\ mode = "gate"
    /\ gate_in.total_frames < MaxGateFrames
    /\ \E rms \in GateRms, voiced \in BOOLEAN :
          gate_in' = StatsAdd(gate_in, rms, voiced)
    /\ gate_out' = <<>>
    /\ UNCHANGED <<client, sess, mode, asr_enabled, detector, hist>>

GateApply ==
    /\ mode = "gate"
    /\ gate_out = <<>>
    /\ gate_out' = <<should_drop_turn(gate_in)>>
    /\ UNCHANGED <<client, sess, mode, asr_enabled, detector, hist, gate_in>>

NextGate == GateAdd \/ GateApply

SpecGate == InitGate /\ [][NextGate]_vars

(***************************************************************************)
(* A stand-alone detector driven by arbitrary chunk sequences.             *)
(***************************************************************************)
DetFrames == {<<>>, ToneFrame(899), ToneFrame(900)}

InitDet ==
    /\ mode = "detector"
    /\ sess = <<>>
    /\ asr_enabled = FALSE
    /\ \E n \in 1..MaxParam, m \in 1..MaxParam :
          detector = NewTurnDetector(900, n, m)
    /\ hist = <<>>
    /\ gate_in = NewTurnStats
    /\ gate_out = <<>>
    /\ client = <<>>

DetFeed ==
    /\ mode = "detector"
    /\ Len(hist) < MaxFeeds
    /\ \E frame \in DetFrames :
          LET r == Feed(detector, frame)
          IN  /\ detector' = r.det
              /\ hist' = Append(hist, [frame |-> frame,
                                       active_before |-> detector.active,
                                       event |-> r.event,
                                       det_after |-> r.det])
    /\ UNCHANGED <<client, sess, mode, asr_enabled, gate_in, gate_out>>

NextDet == DetFeed

SpecDet == InitDet /\ [][NextDet]_vars

(***************************************************************************)
(* Messages on a connection.  A binary message is a frame of bytes; a text *)
(* message is a document that json.loads either rejects or turns into a    *)
(* value, which may or may not be an object.                               *)
(***************************************************************************)
Absent     == [t |-> "absent", v |-> 0]
IntFld(n)  == [t |-> "int", v |-> n]
NumStr(n)  == [t |-> "numstr", v |-> n]     \* a string such as "8000"
BadStr     == [t |-> "badstr", v |-> 0]     \* a string such as "fast"

Text(json, type, sr, bits, ch) ==
    [kind |-> "text", json |-> json, type |-> type,
     sample_rate |-> sr, bits |-> bits, channels |-> ch, data |-> <<>>]

Binary(frame) ==
    [kind |-> "binary", json |-> "", type |-> "",
     sample_rate |-> Absent, bits |-> Absent, channels |-> Absent, data |-> frame]

NoMsg == [kind |-> "none", json |-> "", type |-> "",
          sample_rate |-> Absent, bits |-> Absent, channels |-> Absent, data |-> <<>>]

InvalidJson   == Text("invalid", "", Absent, Absent, Absent)
NonObjectJson == Text("array", "", Absent, Absent, Absent)
StartFull     == Text("object", "start", IntFld(16000), IntFld(16), IntFld(1))
StartRate8k   == Text("object", "start", NumStr(8000), Absent, Absent)
StartBadInt   == Text("object", "start", BadStr, IntFld(16), IntFld(1))
StopMsg       == Text("object", "stop", Absent, Absent, Absent)
OtherMsg      == Text("object", "ping", Absent, Absent, Absent)

TextMsgs == {InvalidJson, NonObjectJson, StartRate8k, StartBadInt, StopMsg, OtherMsg}

Silence == ToneFrame(0)
Speech  == ToneFrame(1500)

FrameMsgs == {Binary(Silence), Binary(Speech)}

\* json.loads: a JSONDecodeError, or the decoded value
JsonLoads(m) == [ok |-> m.json # "invalid", value |-> m]

IsObject(payload) == payload.json = "object"

\* int(payload.get(key, default)): ValueError on a non-numeric string
PyInt(fld, default) ==
    CASE fld.t = "absent" -> [ok |-> TRUE,  v |-> default]
      [] fld.t = "int"    -> [ok |-> TRUE,  v |-> fld.v]
      [] fld.t = "numstr" -> [ok |-> TRUE,  v |-> fld.v]
      [] OTHER            -> [ok |-> FALSE, v |-> 0]

default_audio_config == [sample_rate |-> 16000, bits |-> 16, channels |-> 1]

(***************************************************************************)
(* Audio sinks: the WAV files a handler has opened.  A handle is the index *)
(* of the file in the session's list of sinks; 0 is None.  ts is the       *)
(* second of the server's clock at which the file was named.               *)
(***************************************************************************)
open_wav(S, kind, by) ==
    [S EXCEPT !.sinks = Append(S.sinks, [kind |-> kind, by |-> by, ts |-> S.now,
                                         cfg |-> S.cfg, open |-> TRUE])]

\* device ids are sequences of characters; the id of a connection whose
\* query string has no device parameter
UnknownDevice == <<"u", "n", "k">>

\* the characters of the ids used here for which ch.isalnum() holds
AlNum == {"u", "n", "k", "e", "1", "2"}

SafeChar(ch) == IF ch \in AlNum \cup {"-", "_"} THEN ch ELSE "_"

\* time.strftime("%Y%m%d_%H%M%S") of the clock's second
strftime(now) == <<"000000", "000001", "000002", "000003", "000004">>[now + 1]

Prefix(kind) ==
    CASE kind = "raw" -> <<"raw_">> [] kind = "turn" -> <<"turn_">> [] OTHER -> <<>>

\* the file name "{safe_device}_{prefix}{ts}.wav" in the one output directory
build_output_path(device, prefix, now) ==
    [i \in DOMAIN device |-> SafeChar(device[i])]
        \o <<"_">> \o prefix \o <<strftime(now)>> \o <<".wav">>

\* the path of the file behind handle h of session S
SinkPath(S, h) == build_output_path(S.device, Prefix(S.sinks[h].kind), S.sinks[h].ts)

LastSink(S) == Len(S.sinks)

CloseSink(S, h) == [S EXCEPT !.sinks[h].open = FALSE]

Log(S, what) == [S EXCEPT !.trace = Append(S.trace, what)]

NumSinksBy(S, by) == Cardinality({h \in 1..Len(S.sinks) : S.sinks[h].by = by})

(***************************************************************************)
(* One connection: the handler's locals (both handlers), its position, and *)
(* the connection as the handler sees it.                                  *)
(***************************************************************************)
NewSession(path_ok, script) ==
    [path_ok      |-> path_ok,
     device       |-> UnknownDevice,
     now          |-> 0,
     logged       |-> script # <<>>,
     scripted     |-> script # <<>>,
     script       |-> script,
     pc           |-> "accept",
     flow         |-> "run",
     live         |-> 0,
     exit         |-> "none",
     cur          |-> NoMsg,
     inbox        |-> <<>>,
     peer_closed  |-> FALSE,
     outbox       |-> <<>>,
     trace        |-> <<>>,
     sinks        |-> <<>>,
     cfg          |-> default_audio_config,
     wf           |-> 0,
     detector     |-> DefaultTurnDetector,
     raw_wav      |-> 0,
     turn_wav     |-> 0,
     turn_path    |-> 0,
     in_turn      |-> FALSE,
     tts_playing  |-> FALSE,
     turn_stats   |-> NewTurnStats]

\* await websocket.send(...): raises ConnectionClosed once the peer is gone
Send(S, msg) ==
    IF S.flow # "run" THEN S
    ELSE IF S.live = 0 THEN [S EXCEPT !.flow = "closed", !.peer_closed = TRUE]
    ELSE Log([S EXCEPT !.outbox = Append(S.outbox, msg), !.live = S.live - 1],
             msg.type)

OutMsg(type, body) == [type |-> type, body |-> body]

\* the finally block of handle_ws_record
RecordFinally(S) ==
    IF S.wf # 0 THEN CloseSink(S, S.wf) ELSE S

\* the finally block of handle_ws_assistant
AssistantFinally(S) ==
    LET S1 == IF S.turn_wav # 0 THEN CloseSink(S, S.turn_wav) ELSE S
    IN  IF S1.raw_wav # 0 THEN CloseSink(S1, S1.raw_wav) ELSE S1

Finally(S) == IF mode = "record" THEN RecordFinally(S) ELSE AssistantFinally(S)

\* where the handler is once the body of the loop has run for one message
Settle(S) ==
    LET T == [S EXCEPT !.flow = "run", !.live = 0]
    IN  CASE S.flow \in {"run", "continue"} -> [T EXCEPT !.pc = "recv"]
          [] S.flow = "await"  -> [T EXCEPT !.pc = "transcribe"]
          [] S.flow = "break"  -> [Finally(T) EXCEPT !.pc = "done", !.exit = "stop"]
          [] S.flow = "closed" -> [Finally(T) EXCEPT !.pc = "done", !.exit = "disconnect",
                                                     !.peer_closed = TRUE]
          [] S.flow = "error"  -> [Finally(T) EXCEPT !.pc = "done", !.exit = "error"]
          [] S.flow = "return" -> [Finally(T) EXCEPT !.pc = "done", !.exit = "rejected"]

(***************************************************************************)
(* The control messages both handlers understand.                          *)
(***************************************************************************)
\* the cfg = {...} assignment of a start message
StartCfg(S, payload) ==
    LET sr == PyInt(payload.sample_rate, S.cfg.sample_rate)
        b  == PyInt(payload.bits, S.cfg.bits)
        ch == PyInt(payload.channels, S.cfg.channels)
    IN  IF sr.ok /\ b.ok /\ ch.ok
        THEN [S EXCEPT !.cfg = [sample_rate |-> sr.v, bits |-> b.v, channels |-> ch.v]]
        ELSE [S EXCEPT !.flow = "error"]

\* record mode: wf = open_wav(out_path, cfg)
RecordStart(S) ==
    LET S1 == open_wav(S, "rec", "start")
    IN  [S1 EXCEPT !.wf = LastSink(S1)]

\* mutant: a start message opens a new raw sink and leaves the old one open
AssistantStart_KeepOld(S) ==
    LET S2 == open_wav(S, "raw", "start")
    IN  [S2 EXCEPT !.raw_wav = LastSink(S2)]

\* assistant mode: close the raw sink and open a new one
AssistantStart(S) ==
    LET S1 == IF S.raw_wav # 0 THEN CloseSink(S, S.raw_wav) ELSE S
        S2 == open_wav(S1, "raw", "start")
    IN  [S2 EXCEPT !.raw_wav = LastSink(S2)]

HandleText(S, m) ==
    LET j == JsonLoads(m)
    IN  IF ~j.ok THEN [S EXCEPT !.flow = "continue"]
        ELSE IF ~IsObject(j.value) THEN [S EXCEPT !.flow = "error"]
        ELSE IF j.value.type = "start"
             THEN LET S1 == StartCfg(S, j.value)
                  IN  IF S1.flow # "run" THEN S1
                      ELSE IF mode = "record" THEN RecordStart(S1)
                      ELSE [AssistantStart(S1) EXCEPT !.flow = "continue"]
        ELSE IF j.value.type = "stop" THEN [S EXCEPT !.flow = "break"]
        ELSE IF mode = "record" THEN S
        ELSE [S EXCEPT !.flow = "continue"]

(***************************************************************************)
(* handle_ws_record: a binary message                                      *)
(***************************************************************************)
RecordFrame(S, frame) ==
    LET S1 == IF S.wf = 0
              THEN LET T == open_wav(S, "rec", "implicit")
                   IN  Log([T EXCEPT !.wf = LastSink(T)], "implicit_start")
              ELSE S
    IN  Log(S1, "write")

(***************************************************************************)
(* handle_ws_assistant: a binary message                                   *)
(***************************************************************************)
Placeholder == "(recognition failed or whisper not installed)"

local_llm_reply(user_text) ==
    IF user_text = "" THEN "(did not catch that)" ELSE <<"received", user_text>>

WriteRaw(S) == IF S.raw_wav # 0 THEN Log(S, "raw_write") ELSE S

\* from asr_result to tts_playing = True
Reply(S, transcribed) ==
    LET user_text == IF transcribed = "" THEN Placeholder ELSE transcribed
        S1 == Send(S, OutMsg("asr_result", user_text))
        S2 == Send(S1, OutMsg("assistant_reply", local_llm_reply(user_text)))
    IN  IF S2.flow # "run" THEN S2
        ELSE Log([S2 EXCEPT !.tts_playing = TRUE], "set_playing")

\* mutant: barge_in is sent but tts_playing stays set
OnTurnStart_KeepPlaying(S) ==
    LET S1 == [S EXCEPT !.in_turn = TRUE, !.turn_stats = NewTurnStats]
        S2 == open_wav(S1, "turn", "turn_start")
        S3 == Log([S2 EXCEPT !.turn_path = LastSink(S2), !.turn_wav = LastSink(S2)],
                  "open_turn")
    IN  IF S3.tts_playing THEN Send(S3, OutMsg("barge_in", "user_speaking")) ELSE S3

OnTurnStart(S) ==
    LET S1 == [S EXCEPT !.in_turn = TRUE, !.turn_stats = NewTurnStats]
        S2 == open_wav(S1, "turn", "turn_start")
        S3 == Log([S2 EXCEPT !.turn_path = LastSink(S2), !.turn_wav = LastSink(S2)],
                  "open_turn")
    IN  IF S3.tts_playing
        THEN LET S4 == Send(S3, OutMsg("barge_in", "user_speaking"))
             IN  IF S4.flow # "run" THEN S4
                 ELSE Log([S4 EXCEPT !.tts_playing = FALSE], "clear_playing")
        ELSE S3

\* mutant: only voiced chunks are added to the turn
AddToTurn_VoicedOnly(S, rms, voiced) ==
    IF S.flow # "run" \/ ~S.in_turn \/ ~voiced THEN S
    ELSE LET S1 == Log([S EXCEPT !.turn_stats = StatsAdd(S.turn_stats, rms, voiced)],
                       "stats_add")
         IN  IF S1.turn_wav # 0 THEN Log(S1, "turn_write") ELSE S1

AddToTurn(S, rms, voiced) ==
    IF S.flow # "run" \/ ~S.in_turn THEN S
    ELSE LET S1 == Log([S EXCEPT !.turn_stats = StatsAdd(S.turn_stats, rms, voiced)],
                       "stats_add")
         IN  IF S1.turn_wav # 0 THEN Log(S1, "turn_write") ELSE S1

\* mutant: no continue after asr_skipped
OnTurnEnd_NoContinue(S) ==
    LET S1 == [S EXCEPT !.in_turn = FALSE]
        S2 == IF S1.turn_wav # 0
              THEN Log([CloseSink(S1, S1.turn_wav) EXCEPT !.turn_wav = 0], "close_turn")
              ELSE S1
        g  == should_drop_turn(S2.turn_stats)
        S3 == Log(S2, "gate")
        S4 == IF g.drop THEN Send(S3, OutMsg("asr_skipped", g.info)) ELSE S3
        S5 == Send(S4, OutMsg("asr_status", "processing"))
    IN  IF S5.flow # "run" THEN S5
        ELSE IF asr_enabled /\ S5.turn_path # 0
             THEN Log([S5 EXCEPT !.flow = "await"], "transcribe")
             ELSE Reply(S5, "")

OnTurnEnd(S) ==
    LET S1 == [S EXCEPT !.in_turn = FALSE]
        S2 == IF S1.turn_wav # 0
              THEN Log([CloseSink(S1, S1.turn_wav) EXCEPT !.turn_wav = 0], "close_turn")
              ELSE S1
        g  == should_drop_turn(S2.turn_stats)
        S3 == Log(S2, "gate")
    IN  IF g.drop
        THEN LET S4 == Send(S3, OutMsg("asr_skipped", g.info))
             IN  IF S4.flow # "run" THEN S4 ELSE [S4 EXCEPT !.flow = "continue"]
        ELSE LET S4 == Send(S3, OutMsg("asr_status", "processing"))
             IN  IF S4.flow # "run" THEN S4
                 ELSE IF asr_enabled /\ S4.turn_path # 0
                      THEN Log([S4 EXCEPT !.flow = "await"], "transcribe")
                      ELSE Reply(S4, "")

AssistantFrame(S, frame) ==
    LET S1 == WriteRaw(S)
        r  == Feed(S1.detector, frame)
        S2 == [S1 EXCEPT !.detector = r.det]
        S3 == IF r.event = "turn_start" THEN OnTurnStart(Log(S2, "turn_start")) ELSE S2
        S4 == AddToTurn(S3, r.rms, r.voiced)
    IN  IF S4.flow = "run" /\ r.event = "turn_end" /\ S4.in_turn
        THEN OnTurnEnd(Log(S4, "turn_end"))
        ELSE S4

\* the body of the async-for loop, for one message; trace and outbox record
\* what the handling of the latest binary message did and sent, in order
\* (hist keeps the traces of a logged session)
HandleMessage(S, m) ==
    IF m.kind = "text" THEN HandleText(S, m)
    ELSE LET S0 == [S EXCEPT !.trace = <<>>, !.outbox = <<>>]
         IN  IF mode = "record" THEN RecordFrame(S0, m.data)
             ELSE AssistantFrame(S0, m.data)

(***************************************************************************)
(* What a client may send next: the number of start messages, of turns and *)
(* of chunks in one turn is bounded.                                       *)
(***************************************************************************)
IsGoodStart(m) ==
    /\ m.kind = "text" /\ m.json = "object" /\ m.type = "start"
    /\ PyInt(m.sample_rate, 0).ok /\ PyInt(m.bits, 0).ok /\ PyInt(m.channels, 0).ok

ClientMay(S, m) ==
    IF m.kind = "text"
    THEN IsGoodStart(m) => NumSinksBy(S, "start") < MaxStarts
    ELSE IF mode = "record" THEN TRUE
    ELSE IF S.detector.active THEN S.turn_stats.total_frames < MaxTurnFrames
    ELSE NumSinksBy(S, "turn_start") < MaxTurns

ClientMsgs(S) ==
    IF S.scripted
    THEN IF S.script = <<>> THEN {} ELSE {Head(S.script)}
    ELSE {m \in TextMsgs \cup FrameMsgs : ClientMay(S, m)}

Sent(S) == IF S.scripted /\ S.script # <<>> THEN Tail(S.script) ELSE S.script

\* a scripted client closes only after its last message has been handled
MayClose(S) == S.scripted => (S.script = <<>> /\ S.pc = "recv")

(***************************************************************************)
(* The server: one handler per connection.                                 *)
(***************************************************************************)
Conns == DOMAIN sess

\* up to the first iteration of the loop: the path check, the raw sink
Accept(c) ==
    LET S == sess[c]
    IN  /\ S.pc = "accept"
        /\ sess' = [sess EXCEPT ![c] =
              IF ~S.path_ok THEN Settle([S EXCEPT !.flow = "return"])
              ELSE IF mode = "record" THEN Settle(S)
              ELSE LET S1 == open_wav(S, "raw", "connect")
                   IN  Settle([S1 EXCEPT !.raw_wav = LastSink(S1)])]
        /\ UNCHANGED <<client, mode, asr_enabled, detector, hist, gate_in, gate_out>>

\* async for message in websocket: the next message, queued or just arrived
Recv(c) ==
    LET S == sess[c]
    IN  /\ S.pc = "recv"
        /\ \/ /\ S.inbox # <<>>
              /\ sess' = [sess EXCEPT ![c] = [S EXCEPT !.pc = "handle",
                              !.cur = Head(S.inbox), !.inbox = Tail(S.inbox)]]
           \/ /\ S.inbox = <<>>
              /\ ~S.peer_closed
              /\ \E m \in ClientMsgs(S) :
                    sess' = [sess EXCEPT ![c] = [S EXCEPT !.pc = "handle",
                                !.cur = m, !.script = Sent(S)]]
        /\ UNCHANGED <<client, mode, asr_enabled, detector, hist, gate_in, gate_out>>

\* the loop body for the message taken; live is the number of sends the
\* connection still carries before the peer is gone
Handle(c) ==
    LET S == sess[c]
    IN  /\ S.pc = "handle"
        /\ \E live \in (IF S.peer_closed THEN {0} ELSE IF MayClose(S) THEN 0..3 ELSE {3}) :
              LET T == Settle(HandleMessage([S EXCEPT !.live = live, !.cur = NoMsg], S.cur))
              IN  /\ sess' = [sess EXCEPT ![c] = T]
                  /\ hist' = IF S.logged
                             THEN Append(hist, IF S.cur.kind = "binary" THEN T.trace ELSE <<>>)
                             ELSE hist
        /\ UNCHANGED <<client, mode, asr_enabled, detector, gate_in, gate_out>>

\* asyncio.to_thread(asr.transcribe, turn_path) returns
AsrReturn(c) ==
    LET S == sess[c]
    IN  /\ S.pc = "transcribe"
        /\ \E text \in {"", "hello"},
              live \in (IF S.peer_closed THEN {0} ELSE IF MayClose(S) THEN 0..2 ELSE {2}) :
              LET T == Settle(Reply([S EXCEPT !.live = live], text))
              IN  /\ sess' = [sess EXCEPT ![c] = T]
                  /\ hist' = IF S.logged THEN [hist EXCEPT ![Len(hist)] = T.trace]
                             ELSE hist
        /\ UNCHANGED <<client, mode, asr_enabled, detector, gate_in, gate_out>>

\* a message arrives while the handler is suspended in the transcription
ClientSend(c) ==
    LET S == sess[c]
    IN  /\ S.pc = "transcribe"
        /\ ~S.peer_closed
        /\ Len(S.inbox) < MaxInbox
        /\ \E m \in ClientMsgs(S) :
              sess' = [sess EXCEPT ![c] = [S EXCEPT !.inbox = Append(S.inbox, m),
                                                    !.script = Sent(S)]]
        /\ UNCHANGED <<client, mode, asr_enabled, detector, hist, gate_in, gate_out>>

\* the peer closes the transport while the handler is suspended in the
\* transcription (a close while it waits for a message is HandlerEnd)
PeerClose(c) ==
    LET S == sess[c]
    IN  /\ S.pc = "transcribe"
        /\ ~S.peer_closed
        /\ MayClose(S)
        /\ sess' = [sess EXCEPT ![c] = [S EXCEPT !.peer_closed = TRUE]]
        /\ UNCHANGED <<client, mode, asr_enabled, detector, hist, gate_in, gate_out>>

\* the loop ends (or raises ConnectionClosed) on a closed transport
HandlerEnd(c) ==
    LET S == sess[c]
    IN  /\ S.pc = "recv"
        /\ S.peer_closed \/ MayClose(S)
        /\ sess' = [sess EXCEPT ![c] = Settle([S EXCEPT !.flow = "closed"])]
        /\ UNCHANGED <<client, mode, asr_enabled, detector, hist, gate_in, gate_out>>

Init ==
    /\ mode \in {"record", "assistant"}
    /\ asr_enabled \in (IF mode = "assistant" THEN BOOLEAN ELSE {FALSE})
    /\ \E ok \in BOOLEAN : sess = [c \in {1} |-> NewSession(ok, <<>>)]
    /\ detector = DefaultTurnDetector
    /\ hist = <<>>
    /\ gate_in = NewTurnStats
    /\ gate_out = <<>>
    /\ client = <<>>

Next ==
    \/ \E c \in Conns : Accept(c)
    \/ \E c \in Conns : Recv(c)
    \/ \E c \in Conns : Handle(c)
    \/ \E c \in Conns : AsrReturn(c)
    \/ \E c \in Conns : ClientSend(c)
    \/ \E c \in Conns : PeerClose(c)
    \/ \E c \in Conns : HandlerEnd(c)

Spec == Init /\ [][Next]_vars

(***************************************************************************)
(* An assistant session whose client sends Start{16000,16,1}, then         *)
(* speech_frames + extra chunks of rms 1500, then silence_frames chunks    *)
(* of rms 0; extra = 0 is the end-to-end scenario of the specification.    *)
(***************************************************************************)
RECURSIVE Repeat(_, _)
Repeat(m, n) == IF n = 0 THEN <<>> ELSE <<m>> \o Repeat(m, n - 1)

Scenario(extra) ==
    <<StartFull>>
        \o Repeat(Binary(Speech), DefaultTurnDetector.speech_frames + extra)
        \o Repeat(Binary(Silence), DefaultTurnDetector.silence_frames)

InitE2E ==
    /\ mode = "assistant"
    /\ asr_enabled \in BOOLEAN
    /\ \E extra \in 0..MaxExtraSpeech : sess = [c \in {1} |-> NewSession(TRUE, Scenario(extra))]
    /\ detector = DefaultTurnDetector
    /\ hist = <<>>
    /\ gate_in = NewTurnStats
    /\ gate_out = <<>>
    /\ client = <<>>

NextE2E ==
    \/ \E c \in Conns : Accept(c)
    \/ \E c \in Conns : Recv(c)
    \/ \E c \in Conns : Handle(c)
    \/ \E c \in Conns : AsrReturn(c)
    \/ \E c \in Conns : HandlerEnd(c)

SpecE2E == InitE2E /\ [][NextE2E]_vars

(***************************************************************************)
(* C1: a feed returns turn_start exactly when the detector is Idle before  *)
(* the chunk and the chunk completes a run of speech_frames consecutive    *)
(* voiced chunks (rms >= threshold).                                       *)
(***************************************************************************)
IsVoicedFrame(frame) == frame_rms_s16le(frame) >= detector.threshold

RECURSIVE VoicedRun(_, _)
VoicedRun(h, i) ==
    IF i = 0 \/ ~IsVoicedFrame(h[i].frame) THEN 0 ELSE 1 + VoicedRun(h, i - 1)

RECURSIVE UnvoicedRun(_, _)
UnvoicedRun(h, i) ==
    IF i = 0 \/ IsVoicedFrame(h[i].frame) THEN 0 ELSE 1 + UnvoicedRun(h, i - 1)

C1_TurnStartExactlyOnRun ==
    \A i \in 1..Len(hist) :
        (hist[i].event = "turn_start")
            <=> (~hist[i].active_before
                 /\ VoicedRun(hist, i) = detector.speech_frames)

\* a turn has started after an onset run that an unvoiced chunk broke
C1_Witness ==
    /\ detector.speech_frames >= 2
    /\ \E i \in 1..Len(hist) :
          /\ hist[i].event = "turn_start"
          /\ \E j \in 1..(i - 1) :
                /\ ~hist[j].active_before
                /\ ~IsVoicedFrame(hist[j].frame)
                /\ j > 1 /\ IsVoicedFrame(hist[j - 1].frame)
                /\ ~hist[j - 1].active_before

(***************************************************************************)
(* C2: a feed returns turn_end exactly when the detector is Speaking       *)
(* before the chunk and the chunk completes a run of silence_frames        *)
(* consecutive unvoiced chunks; turn_end leaves the detector Idle with the *)
(* speech counter at 0.                                                    *)
(***************************************************************************)
C2_TurnEndExactlyOnRun ==
    \A i \in 1..Len(hist) :
        /\ (hist[i].event = "turn_end")
              <=> (hist[i].active_before
                   /\ UnvoicedRun(hist, i) = detector.silence_frames)
        /\ hist[i].event = "turn_end"
              => (~hist[i].det_after.active /\ hist[i].det_after.speech_count = 0)

\* a turn has ended after a silence run that a voiced chunk interrupted
C2_Witness ==
    /\ detector.silence_frames >= 2
    /\ \E i \in 1..Len(hist) :
          /\ hist[i].event = "turn_end"
          /\ \E j \in 2..(i - 1) :
                /\ hist[j].active_before
                /\ IsVoicedFrame(hist[j].frame)
                /\ hist[j - 1].active_before
                /\ ~IsVoicedFrame(hist[j - 1].frame)

(***************************************************************************)
(* C7: should_drop_turn rejects iff the turn is shorter than 350 ms, or    *)
(* its voiced share is below 0.35, or its peak rms is below 1200; the      *)
(* three flags of the reason record are these three conditions.            *)
(***************************************************************************)
C7_DropIffAnyCondition ==
    gate_out # <<>> =>
        LET s        == gate_in
            short    == s.total_frames * 20 < 350
            unvoiced == s.voiced_frames * 100 < 35 * s.total_frames
            quiet    == s.max_rms < 1200
        IN  /\ gate_out[1].drop <=> (short \/ unvoiced \/ quiet)
            /\ short => gate_out[1].drop
            /\ gate_out[1].info.too_short = short
            /\ s.total_frames > 0 => gate_out[1].info.too_unvoiced = unvoiced
            /\ gate_out[1].info.too_quiet = quiet

\* an accepted turn whose mean rms is below the peak threshold
C7_Witness ==
    /\ gate_out # <<>>
    /\ ~gate_out[1].drop
    /\ gate_out[1].info.mean_rms < 1200

(***************************************************************************)
(* Reading a trace.                                                        *)
(***************************************************************************)
Range(q) == {q[i] : i \in DOMAIN q}

Count(q, x) == Cardinality({i \in DOMAIN q : q[i] = x})

\* the first position of x in q, 0 if there is none
Pos(q, x) ==
    IF x \in Range(q) THEN CHOOSE i \in DOMAIN q : q[i] = x /\ \A j \in 1..(i - 1) : q[j] # x
    ELSE 0

IsPrefix(p, q) == Len(p) <= Len(q) /\ \A i \in DOMAIN p : p[i] = q[i]

\* the step from S to T is the handler working on a chunk: the loop body for
\* a binary message, or its continuation when the transcription returns
ChunkStep(S, T) ==
    /\ mode = "assistant"
    /\ \/ S.pc = "handle" /\ S.cur.kind = "binary"
       \/ S.pc = "transcribe" /\ T.pc # "transcribe"

(***************************************************************************)
(* C3: a chunk that produces turn_start while tts_playing is set sends     *)
(* exactly one barge_in and clears the flag before the chunk is added to   *)
(* TurnStats or written to the turn sink; with the flag clear no barge_in  *)
(* is sent; barge_in is sent at no other point.                            *)
(***************************************************************************)
C3Step(S, T) ==
    LET tr      == T.trace
        started == "turn_start" \in Range(tr)
        n       == Count(tr, "barge_in")
    IN  /\ (S.pc = "handle" /\ S.cur.kind = "binary" /\ mode = "assistant") =>
              IF started /\ S.tts_playing
              THEN IF T.exit = "disconnect"
                   THEN n = 0 /\ "stats_add" \notin Range(tr) /\ "turn_write" \notin Range(tr)
                   ELSE /\ n = 1
                        /\ ~T.tts_playing
                        /\ Pos(tr, "clear_playing") = Pos(tr, "barge_in") + 1
                        /\ Pos(tr, "clear_playing") < Pos(tr, "stats_add")
                        /\ Pos(tr, "clear_playing") < Pos(tr, "turn_write")
              ELSE n = 0
        /\ ~(S.pc = "handle" /\ S.cur.kind = "binary") =>
              Count(T.trace, "barge_in") = Count(S.trace, "barge_in")

C3_BargeInOnTurnStart ==
    [][\A c \in DOMAIN sess : C3Step(sess[c], sess'[c])]_vars

\* a turn has started during playback and its first chunk has been added
C3_Witness ==
    \E c \in DOMAIN sess :
        /\ sess[c].pc = "recv"
        /\ "barge_in" \in Range(sess[c].trace)
        /\ "stats_add" \in Range(sess[c].trace)
        /\ sess[c].turn_stats.total_frames = 1

(***************************************************************************)
(* C4: at every turn_end the turn sink is closed before the gate runs; a   *)
(* rejected turn is answered by one asr_skipped, without transcription and *)
(* with tts_playing unchanged; an accepted turn by asr_status, asr_result  *)
(* and assistant_reply in this order, after which tts_playing is set.      *)
(***************************************************************************)
MsgTypes == {"barge_in", "asr_skipped", "asr_status", "asr_result", "assistant_reply"}

SkipOutcome == <<"asr_skipped">>

AcceptOutcome ==
    <<"asr_status">> \o (IF asr_enabled THEN <<"transcribe">> ELSE <<>>)
        \o <<"asr_result", "assistant_reply", "set_playing">>

C4Step(S, T) ==
    LET tr    == T.trace
        g     == Pos(tr, "gate")
        after == SubSeq(tr, g + 1, Len(tr))
        drop  == should_drop_turn(T.turn_stats).drop
        want  == IF drop THEN SkipOutcome ELSE AcceptOutcome
    IN  (mode = "assistant" /\ "turn_end" \in Range(tr)) =>
            /\ 0 < Pos(tr, "close_turn") /\ Pos(tr, "close_turn") < g
            /\ T.turn_wav = 0 /\ ~T.sinks[T.turn_path].open
            /\ IsPrefix(after, want)
            /\ T.pc = "transcribe" => after = <<"asr_status", "transcribe">>
            /\ (ChunkStep(S, T) /\ T.pc = "recv") =>
                  /\ after = want
                  /\ [i \in DOMAIN T.outbox |-> T.outbox[i].type]
                        = SelectSeq(tr, LAMBDA x : x \in MsgTypes)
                  /\ drop => T.tts_playing = S.tts_playing
                  /\ ~drop => T.tts_playing

C4_TurnEndAnswered ==
    [][\A c \in DOMAIN sess : C4Step(sess[c], sess'[c])]_vars

\* an accepted turn has been transcribed and answered
C4_Witness ==
    \E c \in DOMAIN sess :
        /\ sess[c].pc = "recv"
        /\ "turn_end" \in Range(sess[c].trace)
        /\ "transcribe" \in Range(sess[c].trace)
        /\ "assistant_reply" \in Range(sess[c].trace)

(***************************************************************************)
(* C5: while a transcription is outstanding, the connection's handler can  *)
(* still take the messages that arrive on that connection.                 *)
(***************************************************************************)
C5_IngestDuringTranscription ==
    \A c \in DOMAIN sess :
        (sess[c].pc = "transcribe" /\ sess[c].inbox # <<>>) => ENABLED Recv(c)

(***************************************************************************)
(* C6: Start{16000,16,1}, 6 chunks of rms 1500 and 18 chunks of rms 0 give *)
(* one turn_start, on the 6th chunk, one turn_end, on the last chunk, and  *)
(* one answer: asr_result and assistant_reply when the turn's statistics   *)
(* meet the three thresholds, asr_skipped otherwise.                       *)
(***************************************************************************)
RECURSIVE CountAll(_, _)
CountAll(h, x) == IF h = <<>> THEN 0 ELSE Count(Head(h), x) + CountAll(Tail(h), x)

C6_EndToEnd ==
    \A c \in DOMAIN sess :
        LET S      == sess[c]
            total  == Len(hist) + Len(S.script) + (IF S.pc = "handle" THEN 1 ELSE 0)
            starts == {i \in DOMAIN hist : "turn_start" \in Range(hist[i])}
            ends   == {i \in DOMAIN hist : "turn_end" \in Range(hist[i])}
            st     == S.turn_stats
            meets  == /\ st.total_frames * 20 >= 350
                      /\ st.voiced_frames * 100 >= 35 * st.total_frames
                      /\ st.max_rms >= 1200
        IN  S.scripted =>
              /\ starts \subseteq {1 + 6}
              /\ ends \subseteq {total}
              /\ (S.script = <<>> /\ S.pc = "recv") =>
                    /\ starts = {1 + 6}
                    /\ ends = {total}
                    /\ CountAll(hist, "asr_result") = (IF meets THEN 1 ELSE 0)
                    /\ CountAll(hist, "assistant_reply") = (IF meets THEN 1 ELSE 0)
                    /\ CountAll(hist, "asr_skipped") = (IF meets THEN 0 ELSE 1)

\* the scenario of 6 and 18 chunks has run to its end
C6_Witness ==
    \E c \in DOMAIN sess :
        /\ sess[c].scripted
        /\ sess[c].script = <<>>
        /\ sess[c].pc = "recv"
        /\ Len(hist) = 1 + 6 + 18
        /\ "turn_end" \in Range(hist[Len(hist)])

(***************************************************************************)
(* C8: a malformed text message (invalid JSON, JSON that is not an object, *)
(* a start message with a non-integer field) is ignored in both handlers:  *)
(* the handler goes on receiving and the session state is unchanged.       *)
(***************************************************************************)
IsIntField(f) == f.t \in {"absent", "int"}

Malformed(m) ==
    /\ m.kind = "text"
    /\ \/ m.json # "object"
       \/ /\ m.type = "start"
          /\ ~(IsIntField(m.sample_rate) /\ IsIntField(m.bits) /\ IsIntField(m.channels))

SessionState(S) ==
    <<S.cfg, S.sinks, S.wf, S.raw_wav, S.turn_wav, S.detector, S.in_turn, S.tts_playing>>

C8_MalformedTextIgnored ==
    [][\A c \in DOMAIN sess :
          (sess[c].pc = "handle" /\ Malformed(sess[c].cur)) =>
              /\ sess'[c].pc = "recv"
              /\ SessionState(sess'[c]) = SessionState(sess[c])]_vars

(***************************************************************************)
(* C9: when a session has ended, every sink opened on that connection has  *)
(* been closed, in record mode and in assistant mode.                      *)
(***************************************************************************)
C9_SinksClosedAtEnd ==
    \A c \in DOMAIN sess :
        sess[c].pc = "done" =>
            \A h \in DOMAIN sess[c].sinks : ~sess[c].sinks[h].open

(***************************************************************************)
(* C10: in assistant mode, after a Start message every open sink of the    *)
(* session, the raw sink and an open turn sink, has the new format.        *)
(***************************************************************************)
C10_OpenSinksHaveSessionFormat ==
    \A c \in DOMAIN sess :
        (mode = "assistant" /\ sess[c].pc = "recv") =>
            \A h \in DOMAIN sess[c].sinks :
                sess[c].sinks[h].open => sess[c].sinks[h].cfg = sess[c].cfg

(***************************************************************************)
(* The ESP32 client (src/esp32_client).  The variables of the server keep  *)
(* their initial values while the client is driven.                        *)
(***************************************************************************)
server_vars == <<sess, asr_enabled, detector, hist, gate_in, gate_out>>

NoServer ==
    /\ sess = <<>>
    /\ asr_enabled = FALSE
    /\ detector = DefaultTurnDetector
    /\ hist = <<>>
    /\ gate_in = NewTurnStats
    /\ gate_out = <<>>

(***************************************************************************)
(* uwebsockets/client.py: the opening handshake.  Lines are sequences of   *)
(* bytes, as sock.readline() returns them.                                 *)
(***************************************************************************)
MaxLines == 3     \* lines the server sends before the stream ends or stalls

Status101           == <<72, 84, 84, 80, 47, 49, 46, 49, 32, 49, 48, 49, 32, 83, 119, 13, 10>>  \* "HTTP/1.1 101 Sw\r\n"
Status200           == <<72, 84, 84, 80, 47, 49, 46, 49, 32, 50, 48, 48, 32, 79, 75, 13, 10>>   \* "HTTP/1.1 200 OK\r\n"
Status500Text101    == <<72, 84, 84, 80, 47, 49, 46, 49, 32, 53, 48, 48, 32, 69, 49, 48, 49, 13, 10>>  \* "HTTP/1.1 500 E101\r\n"
HdrUpgradeWebsocket == <<85, 112, 103, 114, 97, 100, 101, 58, 32, 87, 101, 98, 83, 111, 99, 107, 101, 116, 13, 10>>  \* "Upgrade: WebSocket\r\n"
HdrUpgradeOther     == <<85, 112, 103, 114, 97, 100, 101, 58, 32, 104, 50, 99, 13, 10>>  \* "Upgrade: h2c\r\n"
HdrConnection       == <<67, 111, 110, 110, 101, 99, 116, 105, 111, 110, 58, 32, 85, 112, 103, 114, 97, 100, 101, 13, 10>>  \* "Connection: Upgrade\r\n"
HdrNoColon          == <<103, 97, 114, 98, 97, 103, 101, 13, 10>>  \* "garbage\r\n"
BlankLine           == <<13, 10>>                                   \* "\r\n"
B101                == <<49, 48, 49>>                               \* "101"
BUpgrade            == <<117, 112, 103, 114, 97, 100, 101>>         \* "upgrade"
BWebsocket          == <<119, 101, 98, 115, 111, 99, 107, 101, 116>>  \* "websocket"

ResponseLines == {Status101, Status200, Status500Text101, HdrUpgradeWebsocket,
                  HdrUpgradeOther, HdrConnection, HdrNoColon, BlankLine}

\* pat in line
Contains(line, pat) ==
    \E i \in 1..(Len(line) - Len(pat) + 1) : SubSeq(line, i, i + Len(pat) - 1) = pat

\* line.find(b) + 1
IndexOf(line, b) ==
    IF \E i \in DOMAIN line : line[i] = b
    THEN CHOOSE i \in DOMAIN line : line[i] = b /\ \A j \in 1..(i - 1) : line[j] # b
    ELSE 0

IsSpace(b) == b \in {9, 10, 11, 12, 13, 32}

\* bytes.strip()
Strip(s) ==
    LET keep == {i \in DOMAIN s : ~IsSpace(s[i])}
    IN  IF keep = {} THEN <<>>
        ELSE LET lo == CHOOSE i \in keep : \A j \in keep : i <= j
                 hi == CHOOSE i \in keep : \A j \in keep : j <= i
             IN  SubSeq(s, lo, hi)

\* bytes.lower()
Lower(s) == [i \in DOMAIN s |-> IF s[i] \in 65..90 THEN s[i] + 32 ELSE s[i]]

\* the k-th sock.readline(): a line, b"" at the end of the stream, or a timeout
ReadLine(net, k) ==
    IF k <= Len(net.lines) THEN [ok |-> TRUE, line |-> net.lines[k]]
    ELSE [ok |-> net.tail = "eof", line |-> <<>>]

\* headers[k] = v
DictPut(d, k, v) == SelectSeq(d, LAMBDA e : e.k # k) \o <<[k |-> k, v |-> v]>>

\* headers.get(k): <<v>>, or <<>> for None
DictGet(d, k) ==
    LET hit == SelectSeq(d, LAMBDA e : e.k = k)
    IN  IF hit = <<>> THEN <<>> ELSE <<hit[1].v>>

\* the loop of _read_http_headers from the k-th read on
RECURSIVE ReadHeaderLines(_, _, _)
ReadHeaderLines(net, k, headers) ==
    LET r == ReadLine(net, k)
    IN  IF ~r.ok THEN [ok |-> FALSE, headers |-> headers]
        ELSE IF r.line = <<>> \/ r.line = BlankLine THEN [ok |-> TRUE, headers |-> headers]
        ELSE LET colon == IndexOf(r.line, 58)
             IN  IF colon = 0 THEN [ok |-> FALSE, headers |-> headers]
                 ELSE ReadHeaderLines(net, k + 1,
                          DictPut(headers,
                                  Lower(Strip(SubSeq(r.line, 1, colon - 1))),
                                  Lower(Strip(SubSeq(r.line, colon + 1, Len(r.line))))))

StatusLineOk(line) == line # <<>> /\ Contains(line, B101)

_read_http_headers(net) ==
    LET r == ReadLine(net, 1)
    IN  IF ~r.ok \/ ~StatusLineOk(r.line) THEN [ok |-> FALSE, headers |-> <<>>]
        ELSE ReadHeaderLines(net, 2, <<>>)

\* connect(url): whether a WebsocketClient is returned, and the socket's fate
connect(net) ==
    IF net.tcp = "refused"
    THEN [returned |-> FALSE, sock |-> "open"]
    ELSE IF net.tcp = "reset"
    THEN [returned |-> FALSE, sock |-> "closed"]
    ELSE LET h == _read_http_headers(net)
         IN  IF h.ok /\ DictGet(h.headers, BUpgrade) = <<BWebsocket>>
             THEN [returned |-> TRUE, sock |-> "open"]
             ELSE [returned |-> FALSE, sock |-> "closed"]

RECURSIVE SeqsUpTo(_, _)
SeqsUpTo(S, n) ==
    IF n = 0 THEN {<<>>}
    ELSE LET shorter == SeqsUpTo(S, n - 1)
         IN  shorter \cup {Append(s, x) : s \in shorter, x \in S}

Networks ==
    [tcp : {"ok", "refused", "reset"}, lines : SeqsUpTo(ResponseLines, MaxLines),
     tail : {"eof", "timeout"}]

InitConnect ==
    /\ mode = "connect"
    /\ NoServer
    /\ \E net \in Networks :
          client = [pc |-> "call", net |-> net, returned |-> FALSE, sock |-> "none"]

Connect ==
    /\ mode = "connect"
    /\ client.pc = "call"
    /\ LET r == connect(client.net)
       IN  client' = [client EXCEPT !.pc = "done", !.returned = r.returned,
                                    !.sock = r.sock]
    /\ UNCHANGED <<mode, server_vars>>

NextConnect == Connect

SpecConnect == InitConnect /\ [][NextConnect]_vars

(***************************************************************************)
(* uwebsockets/client.py: WebsocketClient._write_frame.  Bit operations    *)
(* are computed bit by bit on non-negative integers.                       *)
(***************************************************************************)
MaxPayload == 5   \* payload lengths 0..MaxPayload are written under every key and opcode

RECURSIVE BitXor(_, _, _)
BitXor(a, b, n) ==
    IF n = 0 THEN 0
    ELSE (((a % 2) + (b % 2)) % 2) + 2 * BitXor(a \div 2, b \div 2, n - 1)

RECURSIVE BitAnd(_, _, _)
BitAnd(a, b, n) ==
    IF n = 0 THEN 0
    ELSE ((a % 2) * (b % 2)) + 2 * BitAnd(a \div 2, b \div 2, n - 1)

RECURSIVE BitOr(_, _, _)
BitOr(a, b, n) ==
    IF n = 0 THEN 0
    ELSE (IF (a % 2) + (b % 2) > 0 THEN 1 ELSE 0) + 2 * BitOr(a \div 2, b \div 2, n - 1)

\* x >> s for 0 <= x < 2^31
Shr(x, s) == IF s >= 31 THEN 0 ELSE x \div (2 ^ s)

\* mutant: 126 is still encoded in the 7-bit field
LengthField_Late(length) ==
    IF length <= 126 THEN <<BitOr(128, length, 8)>>
    ELSE IF length < 65536
    THEN <<BitOr(128, 126, 8), BitAnd(Shr(length, 8), 255, 8), BitAnd(length, 255, 8)>>
    ELSE <<BitOr(128, 127, 8)>>
             \o [k \in 1..8 |-> BitAnd(Shr(length, 64 - 8 * k), 255, 8)]

\* the bytes appended to hdr after its first byte
LengthField(length) ==
    IF length < 126 THEN <<BitOr(128, length, 8)>>
    ELSE IF length < 65536
    THEN <<BitOr(128, 126, 8), BitAnd(Shr(length, 8), 255, 8), BitAnd(length, 255, 8)>>
    ELSE <<BitOr(128, 127, 8)>>
             \o [k \in 1..8 |-> BitAnd(Shr(length, 64 - 8 * k), 255, 8)]

FrameHeader(opcode, length) ==
    <<BitOr(128, BitAnd(opcode, 15, 8), 8)>> \o LengthField(length)

\* mutant: the key index wraps at 2 instead of 4
MaskByte_Mod2(payload, mask_key, idx) ==
    BitXor(payload[idx + 1], mask_key[BitAnd(idx, 1, 8) + 1], 8)

\* chunk[j] = payload[i + j] ^ mask_key[(i + j) & 3], with idx = i + j from 0
MaskByte(payload, mask_key, idx) ==
    BitXor(payload[idx + 1], mask_key[BitAnd(idx, 3, 8) + 1], 8)

\* the chunks the while loop writes from offset i on
RECURSIVE MaskChunks(_, _, _)
MaskChunks(payload, mask_key, i) ==
    IF i >= Len(payload) THEN <<>>
    ELSE LET n == IF Len(payload) - i < 256 THEN Len(payload) - i ELSE 256
         IN  <<[j \in 1..n |-> MaskByte(payload, mask_key, i + j - 1)]>>
                 \o MaskChunks(payload, mask_key, i + n)

\* the sequence of sock.write calls of one _write_frame
_write_frame(opcode, payload, mask_key) ==
    <<FrameHeader(opcode, Len(payload)), mask_key>> \o MaskChunks(payload, mask_key, 0)

Opcodes == {1, 2, 8}     \* send(str), send(bytes), close()

MaskKeys == {<<0, 0, 0, 0>>, <<1, 2, 3, 4>>, <<165, 90, 255, 16>>, <<255, 255, 255, 255>>}

FrameLens == (0..MaxPayload) \cup {125, 126, 127, 255, 256, 257, 65535, 65536}

PayloadSeeds == {0, 1}

MakePayload(length, seed) == [i \in 1..length |-> ((seed * 101) + (i * 37)) % 256]

NoLimit == 0 - 1

\* how many sock.write calls succeed before one raises
WriteRooms == {NoLimit, 0, 1, 2, 3}

InitFrame ==
    /\ mode = "frame"
    /\ NoServer
    /\ \E opcode \in Opcodes, length \in FrameLens, seed \in PayloadSeeds,
          mask_key \in MaskKeys, room \in WriteRooms :
          /\ length > 257 =>
                 opcode = 2 /\ seed = 0 /\ mask_key = <<165, 90, 255, 16>> /\ room = NoLimit
          /\ client = [pc |-> "call", opcode |-> opcode,
                       payload |-> MakePayload(length, seed),
                       mask_key |-> mask_key, room |-> room, written |-> <<>>]

WriteFrame ==
    /\ mode = "frame"
    /\ client.pc = "call"
    /\ LET writes == _write_frame(client.opcode, client.payload, client.mask_key)
       IN  IF client.room = NoLimit \/ client.room >= Len(writes)
           THEN client' = [client EXCEPT !.pc = "returned", !.written = writes]
           ELSE client' = [client EXCEPT !.pc = "raised",
                                         !.written = SubSeq(writes, 1, client.room)]
    /\ UNCHANGED <<mode, server_vars>>

NextFrame == WriteFrame

SpecFrame == InitFrame /\ [][NextFrame]_vars

(***************************************************************************)
(* C13: connect() returns a WebsocketClient only when the response has a   *)
(* 101 status line and an Upgrade: websocket header; for every other       *)
(* outcome it raises and the socket it created is closed before the error  *)
(* propagates.                                                             *)
(***************************************************************************)
\* the status code of a status line: its second field
StatusCode(line) ==
    LET sp   == IndexOf(line, 32)
        rest == IF sp = 0 THEN <<>> ELSE SubSeq(line, sp + 1, Len(line))
        sp2  == IndexOf(rest, 32)
    IN  IF sp2 = 0 THEN Strip(rest) ELSE SubSeq(rest, 1, sp2 - 1)

HasStatus101(net) == net.lines # <<>> /\ StatusCode(net.lines[1]) = B101

IsUpgradeWebsocket(line) ==
    LET colon == IndexOf(line, 58)
    IN  /\ colon > 0
        /\ Lower(Strip(SubSeq(line, 1, colon - 1))) = BUpgrade
        /\ Lower(Strip(SubSeq(line, colon + 1, Len(line)))) = BWebsocket

HasUpgradeHeader(net) ==
    \E k \in 2..Len(net.lines) :
        /\ IsUpgradeWebsocket(net.lines[k])
        /\ \A j \in 2..(k - 1) : net.lines[j] # BlankLine

C13_ConnectOnlyOnUpgrade ==
    (mode = "connect" /\ client.pc = "done") =>
        /\ client.returned => HasStatus101(client.net) /\ HasUpgradeHeader(client.net)
        /\ ~client.returned => client.sock = "closed"

(***************************************************************************)
(* C14: for every payload length L, the header _write_frame writes has     *)
(* FIN = 1 with the given opcode in its first byte, the mask bit set in    *)
(* its second byte, and encodes L in the 7-bit field when L < 126, as      *)
(* marker 126 and a 16-bit big-endian integer when 126 <= L < 65536, and   *)
(* as marker 127 and a 64-bit big-endian integer otherwise.                *)
(***************************************************************************)
RECURSIVE BigEndian(_)
BigEndian(bytes) ==
    IF bytes = <<>> THEN 0
    ELSE BigEndian(SubSeq(bytes, 1, Len(bytes) - 1)) * 256 + bytes[Len(bytes)]

HeaderEncodes(hdr, opcode, L) ==
    /\ Len(hdr) >= 2
    /\ \A i \in DOMAIN hdr : hdr[i] \in 0..255
    /\ hdr[1] = 128 + opcode
    /\ hdr[2] >= 128
    /\ IF L < 126 THEN Len(hdr) = 2 /\ hdr[2] - 128 = L
       ELSE IF L < 65536
       THEN Len(hdr) = 4 /\ hdr[2] - 128 = 126 /\ BigEndian(SubSeq(hdr, 3, 4)) = L
       ELSE /\ Len(hdr) = 10 /\ hdr[2] - 128 = 127
            /\ BigEndian(SubSeq(hdr, 3, 6)) = 0
            /\ BigEndian(SubSeq(hdr, 7, 10)) = L

C14_HeaderEncodesLength ==
    (mode = "frame" /\ client.written # <<>>) =>
        HeaderEncodes(client.written[1], client.opcode, Len(client.payload))

C14_Witness ==
    /\ mode = "frame"
    /\ client.pc = "returned"
    /\ Len(client.payload) = 65536
    /\ client.written[1] = <<130, 255, 0, 0, 0, 0, 0, 1, 0, 0>>

(***************************************************************************)
(* C15: the bytes written after the header and the key, concatenated over  *)
(* all chunks, are as many as the payload's and their i-th byte is         *)
(* payload[i] XOR mask_key[i mod 4], i counted in the whole payload; so    *)
(* unmasking them with the same key gives the payload back.                *)
(***************************************************************************)
RECURSIVE Flatten(_)
Flatten(ss) == IF ss = <<>> THEN <<>> ELSE Head(ss) \o Flatten(Tail(ss))

\* what a receiver does with a masked payload; i counts from 0
Unmask(body, key) == [i \in DOMAIN body |-> BitXor(body[i], key[((i - 1) % 4) + 1], 8)]

C15_MaskRoundTrip ==
    (mode = "frame" /\ Len(client.written) >= 2) =>
        LET body == Flatten(SubSeq(client.written, 3, Len(client.written)))
        IN  /\ client.written[2] = client.mask_key
            /\ Len(body) <= Len(client.payload)
            /\ client.pc = "returned" => Len(body) = Len(client.payload)
            /\ \A k \in 3..Len(client.written) : Len(client.written[k]) \in 1..256
            /\ \A i \in DOMAIN body :
                   body[i] = BitXor(client.payload[i], client.mask_key[((i - 1) % 4) + 1], 8)
            /\ Unmask(body, client.mask_key) = SubSeq(client.payload, 1, Len(body))

C15_Witness ==
    /\ mode = "frame"
    /\ client.pc = "returned"
    /\ Len(client.payload) = 257
    /\ client.mask_key = <<1, 2, 3, 4>>
    /\ Len(client.written) = 4
    /\ client.written[4] = <<BitXor(client.payload[257], 1, 8)>>

(***************************************************************************)
(* main.py: the DSP chain.  pcm32_to_pcm16le converts one chunk of 32-bit  *)
(* capture words to 16-bit little-endian PCM: _read_i32, the DC-block      *)
(* filter, the down shift, the gain, the clip and the peak meter for each  *)
(* sample, then one AGC update.  x >> k is floor division by 2^k.          *)
(***************************************************************************)
MaxDspChunks == 3   \* chunks converted while the DC-block filter is enabled

PCM_DOWN_SHIFT   == 8
PCM_GAIN_NUM     == 1
PCM_GAIN_DEN     == 1
TARGET_PEAK      == 12000
AUTO_GAIN_MIN_Q8 == 64
AUTO_GAIN_MAX_Q8 == 1024
ATTACK_STEP_Q8   == 8
RELEASE_STEP_Q8  == 20
DC_BLOCK_A_Q15   == 32440

Min(a, b) == IF a < b THEN a ELSE b

Max(a, b) == IF a > b THEN a ELSE b

\* the layouts _read_i32 has a branch for; any other PCM_EXTRACT_MODE raises
ExtractModeOk(extract_mode) == extract_mode \in {"le32_left24", "be32_left24"}

\* the signed value of the four bytes at raw_buf[b .. b+3], b counted from 0,
\* for a layout that has a branch; the top byte is taken as signed so that no
\* intermediate exceeds 32 bits
_read_i32(extract_mode, raw_buf, b) ==
    LET b0 == IF extract_mode = "le32_left24" THEN raw_buf[b + 1] ELSE raw_buf[b + 4]
        b1 == IF extract_mode = "le32_left24" THEN raw_buf[b + 2] ELSE raw_buf[b + 3]
        b2 == IF extract_mode = "le32_left24" THEN raw_buf[b + 3] ELSE raw_buf[b + 2]
        b3 == IF extract_mode = "le32_left24" THEN raw_buf[b + 4] ELSE raw_buf[b + 1]
        top == IF b3 >= 128 THEN b3 - 256 ELSE b3
    IN  top * 16777216 + b2 * 65536 + b1 * 256 + b0

\* (a * y) >> 15 for 0 <= a < 2^15, without a product wider than 32 bits
MulShr15(a, y) ==
    LET q == y \div 32768
        r == y % 32768
    IN  a * q + ((a * r) \div 32768)

\* _dc_block(x): the new filter state and the returned y
_dc_block(D, x) ==
    LET y == x - D.prev_x + MulShr15(DC_BLOCK_A_Q15, D.prev_y)
    IN  [D EXCEPT !.prev_x = x, !.prev_y = y, !.y = y]

_apply_gain(D, y) ==
    IF D.AUTO_GAIN THEN (y * D.auto_gain_q8) \div 256
    ELSE (y * PCM_GAIN_NUM) \div PCM_GAIN_DEN

\* mutant: the gain is not clamped from above
ClampGain_NoMax(g) ==
    IF g < AUTO_GAIN_MIN_Q8 THEN AUTO_GAIN_MIN_Q8 ELSE g

ClampGain(g) ==
    IF g < AUTO_GAIN_MIN_Q8 THEN AUTO_GAIN_MIN_Q8
    ELSE IF g > AUTO_GAIN_MAX_Q8 THEN AUTO_GAIN_MAX_Q8
    ELSE g

_update_auto_gain(D, peak) ==
    IF ~D.AUTO_GAIN THEN D
    ELSE IF peak <= 0 THEN D
    ELSE LET desired_q8 == (TARGET_PEAK * 256) \div peak
             stepped    == IF desired_q8 > D.auto_gain_q8
                           THEN Min(D.auto_gain_q8 + ATTACK_STEP_Q8, desired_q8)
                           ELSE Max(D.auto_gain_q8 - RELEASE_STEP_Q8, desired_q8)
         IN  [D EXCEPT !.auto_gain_q8 = ClampGain(stepped)]

\* one iteration of the for loop of pcm32_to_pcm16le; the ValueError of
\* _read_i32 leaves the function at once (pc "raised")
SampleBody(D) ==
    LET x   == _read_i32(D.PCM_EXTRACT_MODE, D.raw_buf, D.i * 4)
        x24 == x \div 256
        F   == IF D.ENABLE_DC_BLOCK THEN _dc_block(D, x24) ELSE [D EXCEPT !.y = x24]
        g   == _apply_gain(F, F.y \div (2 ^ PCM_DOWN_SHIFT))
        y   == IF g > 32767 THEN 32767 ELSE IF g < 0 - 32768 THEN 0 - 32768 ELSE g
        ay  == IF y >= 0 THEN y ELSE 0 - y
    IN  IF ~ExtractModeOk(D.PCM_EXTRACT_MODE) THEN [D EXCEPT !.pc = "raised"]
        ELSE [F EXCEPT !.y = y,
                       !.clip_count = IF g # y THEN @ + 1 ELSE @,
                       !.peak = IF ay > @ THEN ay ELSE @,
                       !.out = @ \o <<y % 256, (y \div 256) % 256>>,
                       !.i = @ + 1]

\* the state at the first line of pcm32_to_pcm16le(raw_buf, n_raw, out_buf);
\* n is what readinto returned (<<>> is None) and frame what the iteration sent
EnterChunk(D, raw_buf, n_raw) ==
    [D EXCEPT !.pc = "loop", !.raw_buf = raw_buf, !.samples = n_raw \div 4,
              !.i = 0, !.peak = 0, !.clip_count = 0, !.out = <<>>, !.y = 0,
              !.chunks = Min(@ + 1, MaxDspChunks),
              !.n = <<n_raw>>, !.frame = <<>>]

\* after the loop: the AGC update and the return
LeaveChunk(D) == [_update_auto_gain(D, D.peak) EXCEPT !.pc = "idle"]

\* stream_audio_once after the conversion: ws.send(pcm_mv[:out_n]) if out_n > 0
SendChunk(D) == [D EXCEPT !.frame = IF Len(D.out) > 0 THEN D.out ELSE <<>>]

\* stream_audio_once when readinto returned None or n <= 0: sleep and continue
SkipRead(D, n) == [D EXCEPT !.n = n, !.frame = <<>>]

NewDsp(auto_gain, dc_block, extract_mode) ==
    [AUTO_GAIN |-> auto_gain, ENABLE_DC_BLOCK |-> dc_block,
     PCM_EXTRACT_MODE |-> extract_mode,
     prev_x |-> 0, prev_y |-> 0, auto_gain_q8 |-> 256,
     pc |-> "idle", raw_buf |-> <<>>, samples |-> 0, i |-> 0, peak |-> 0,
     clip_count |-> 0, out |-> <<>>, y |-> 0, chunks |-> 0,
     n |-> <<>>, frame |-> <<>>]

\* a capture word holding the 16-bit amplitude a in its top bytes, little-endian
Word(a) == <<0, 0, a % 256, (a \div 256) % 256>>

RawChunks ==
    { Word(0) \o Word(0),
      Word(1),
      Word(6000),
      Word(11637),
      Word(12000) \o Word(0 - 12000),
      Word(13019),
      <<0, 15, 177, 45>>,
      Word(32767) \o Word(0 - 32768),
      <<0, 0>> }

\* the capture buffer holds the longest read; one 16-bit sample per 32-bit word
RAW_CHUNK_BYTES ==
    CHOOSE m \in {Len(c) : c \in RawChunks} : \A c \in RawChunks : Len(c) <= m

PCM_CHUNK_BYTES == (RAW_CHUNK_BYTES \div 4) * 2

\* values of the setting PCM_EXTRACT_MODE: the two layouts and another string
ExtractModes == {"le32_left24", "be32_left24", "le32_right24"}

InitDsp ==
    /\ mode = "dsp"
    /\ NoServer
    /\ \E auto_gain \in BOOLEAN, dc_block \in BOOLEAN, extract_mode \in ExtractModes :
          client = NewDsp(auto_gain, dc_block, extract_mode)

\* readinto returned None, 0 or an error code: no conversion, no frame
EmptyRead ==
    /\ mode = "dsp"
    /\ client.pc \in {"idle", "raised"}
    /\ \E n \in {<<>>, <<0>>, <<0 - 1>>} : client' = SkipRead(client, n)
    /\ UNCHANGED <<mode, server_vars>>

ChunkStart ==
    /\ mode = "dsp"
    /\ client.pc \in {"idle", "raised"}
    /\ client.ENABLE_DC_BLOCK => client.chunks < MaxDspChunks
    /\ \E raw_buf \in RawChunks :
          client' = EnterChunk(client, raw_buf, Len(raw_buf))
    /\ UNCHANGED <<mode, server_vars>>

SampleStep ==
    /\ mode = "dsp"
    /\ client.pc = "loop"
    /\ client.i < client.samples
    /\ client' = SampleBody(client)
    /\ UNCHANGED <<mode, server_vars>>

ChunkEnd ==
    /\ mode = "dsp"
    /\ client.pc = "loop"
    /\ client.i >= client.samples
    /\ client' = SendChunk(LeaveChunk(client))
    /\ UNCHANGED <<mode, server_vars>>

NextDsp == EmptyRead \/ ChunkStart \/ SampleStep \/ ChunkEnd

SpecDsp == InitDsp /\ [][NextDsp]_vars

(***************************************************************************)
(* C16: an AGC update with a chunk peak of exactly target_peak leaves the  *)
(* gain unchanged, whatever gain the controller holds.                     *)
(***************************************************************************)
\* this step is the AGC update that ends a chunk
IsAgcUpdate == mode = "dsp" /\ client.pc = "loop" /\ client'.pc = "idle"

C16Step ==
    (IsAgcUpdate /\ client.AUTO_GAIN /\ client.peak = TARGET_PEAK) =>
        client'.auto_gain_q8 = client.auto_gain_q8

C16_TargetPeakKeepsGain == [][C16Step]_vars

(***************************************************************************)
(* C17: in every AGC update reachable from the initial gain 256, a chunk   *)
(* peak above target_peak never increases the gain and never takes it      *)
(* below gain_min_q8, and a chunk peak below target_peak never decreases   *)
(* it and never takes it above gain_max_q8.                                *)
(***************************************************************************)
C17Step ==
    (IsAgcUpdate /\ client.AUTO_GAIN) =>
        /\ client.peak > TARGET_PEAK =>
               /\ client'.auto_gain_q8 <= client.auto_gain_q8
               /\ client'.auto_gain_q8 >= AUTO_GAIN_MIN_Q8
        /\ client.peak < TARGET_PEAK =>
               /\ client'.auto_gain_q8 >= client.auto_gain_q8
               /\ client'.auto_gain_q8 <= AUTO_GAIN_MAX_Q8

C17_GainFollowsPeak == [][C17Step]_vars

(***************************************************************************)
(* C18: after any sequence of chunks converted by pcm32_to_pcm16le from    *)
(* the initial gain 256 the gain is within [AUTO_GAIN_MIN_Q8,              *)
(* AUTO_GAIN_MAX_Q8]; an update with peak <= 0, and any update while       *)
(* AUTO_GAIN is off, leaves the gain unchanged; and the gain changes only  *)
(* between chunks, never during the per-sample loop of a chunk.            *)
(***************************************************************************)
C18Step ==
    mode = "dsp" =>
        /\ client'.auto_gain_q8 \in AUTO_GAIN_MIN_Q8..AUTO_GAIN_MAX_Q8
        /\ (client.pc = "loop" /\ client'.pc = "loop") =>
               client'.auto_gain_q8 = client.auto_gain_q8
        /\ client.pc = "idle" => client'.auto_gain_q8 = client.auto_gain_q8
        /\ (IsAgcUpdate /\ (client.peak <= 0 \/ ~client.AUTO_GAIN)) =>
               client'.auto_gain_q8 = client.auto_gain_q8

C18_GainInRangeBetweenChunks == [][C18Step]_vars

\* the gain has been raised to its maximum and a silent chunk has just left it there
C18_Witness ==
    /\ mode = "dsp"
    /\ client.AUTO_GAIN
    /\ client.pc = "idle"
    /\ client.auto_gain_q8 = AUTO_GAIN_MAX_Q8
    /\ client.samples = 2
    /\ client.peak = 0

(***************************************************************************)
(* main.py: _dc_block alone, fed 24-bit samples one at a time.  run counts *)
(* the samples for which the input has kept its present value.             *)
(***************************************************************************)
MaxDcAmp == 8     \* inputs are -MaxDcAmp, 0 and MaxDcAmp

\* samples after which a decaying output of this size has reached its limit
DcSettle == 4 * MaxDcAmp + 4

DcInputs == {0 - MaxDcAmp, 0, MaxDcAmp}

InitDc ==
    /\ mode = "dc_block"
    /\ NoServer
    /\ client = [prev_x |-> 0, prev_y |-> 0, y |-> 0, run |-> 0]

DcSample ==
    /\ mode = "dc_block"
    /\ \E x \in DcInputs :
          client' = [_dc_block(client, x) EXCEPT
                        !.run = IF client.run > 0 /\ x = client.prev_x
                                THEN Min(client.run + 1, DcSettle) ELSE 1]
    /\ UNCHANGED <<mode, server_vars>>

NextDc == DcSample

SpecDc == InitDc /\ [][NextDc]_vars

(***************************************************************************)
(* C19: with the default coefficient, from any reachable filter state and  *)
(* for every constant input value, positive or negative, the output of     *)
(* _dc_block reaches 0 within a bounded number of samples and stays 0      *)
(* while the input stays constant.                                         *)
(***************************************************************************)
C19_ConstantInputSettles ==
    (mode = "dc_block" /\ client.run >= DcSettle) => client.y = 0

(***************************************************************************)
(* main.py: the supervisor main() and one streaming session                *)
(* stream_audio_once().  The position pc is the call or await the          *)
(* coroutine is at; every call that can raise has both outcomes.           *)
(***************************************************************************)
MaxCycles == 6    \* reconnect delays the supervisor sleeps through
MaxFrames == 2    \* audio frames counted within one session

RECONNECT_SECONDS_MIN == 2
RECONNECT_SECONDS_MAX == 20

\* what the server may answer to the handshake of a session
SessionNetworks ==
    { [tcp |-> "refused", lines |-> <<>>, tail |-> "eof"],
      [tcp |-> "ok", lines |-> <<Status200, BlankLine>>, tail |-> "eof"],
      [tcp |-> "ok", lines |-> <<Status101>>, tail |-> "timeout"],
      [tcp |-> "ok", lines |-> <<Status101, HdrUpgradeWebsocket, BlankLine>>,
       tail |-> "eof"] }

\* the locals of stream_audio_once at its first line
EnterStream(C) ==
    [C EXCEPT !.pc = "ensure_wifi", !.ws = "none", !.sock = "none",
              !.audio_in = "none", !.frames = 0, !.failed = "none",
              !.teardown = <<>>]

NewClient(extract_mode) ==
    [PCM_EXTRACT_MODE |-> extract_mode,
     pc |-> "boot", retry_s |-> 0, cycles |-> <<>>, ws |-> "none",
     sock |-> "none", audio_in |-> "none", frames |-> 0, failed |-> "none",
     teardown |-> <<>>]

\* an exception reaches the except clause of stream_audio_once
Raise(C, step) == [C EXCEPT !.pc = "finally", !.failed = step]

Did(C, step, ok) ==
    [C EXCEPT !.teardown = Append(@, [step |-> step, ok |-> ok])]

\* mutant: a close frame that cannot be written keeps the socket from being closed
WsClose_Unguarded(C, frame_ok, close_ok) ==
    LET F == Did(C, "close_frame", frame_ok)
    IN  IF frame_ok
        THEN [Did(F, "sock_close", close_ok) EXCEPT
                 !.sock = IF close_ok THEN "closed" ELSE @]
        ELSE F

\* WebsocketClient.close, called inside the try of the finally block
WsClose(C, frame_ok, close_ok) ==
    LET F == Did(C, "close_frame", frame_ok)
    IN  [Did(F, "sock_close", close_ok) EXCEPT
            !.sock = IF close_ok THEN "closed" ELSE @]

\* the finally block of stream_audio_once
StreamFinally(C, stop_ok, frame_ok, close_ok, deinit_ok) ==
    LET A == IF C.ws # "none"
             THEN WsClose(Did(C, "stop", stop_ok), frame_ok, close_ok)
             ELSE C
        B == IF A.audio_in # "none"
             THEN [Did(A, "deinit", deinit_ok) EXCEPT
                      !.audio_in = IF deinit_ok THEN "released" ELSE @]
             ELSE A
    IN  [B EXCEPT !.pc = "sleep"]

\* mutant: a session that sent audio resets the delay
NextRetry_ResetOnSuccess(C) ==
    IF C.frames > 0 THEN RECONNECT_SECONDS_MIN
    ELSE Min(C.retry_s * 2, RECONNECT_SECONDS_MAX)

NextRetry(C) == Min(C.retry_s * 2, RECONNECT_SECONDS_MAX)

InitClient ==
    /\ mode = "supervisor"
    /\ NoServer
    /\ \E extract_mode \in ExtractModes : client = NewClient(extract_mode)

\* main(): the initial connect_wifi and retry_s = RECONNECT_SECONDS_MIN
Boot ==
    /\ mode = "supervisor"
    /\ client.pc = "boot"
    /\ \E associated \in BOOLEAN :
          client' = IF associated
                    THEN EnterStream([client EXCEPT !.retry_s = RECONNECT_SECONDS_MIN])
                    ELSE [client EXCEPT !.pc = "terminated", !.failed = "wifi"]
    /\ UNCHANGED <<mode, server_vars>>

EnsureWifi ==
    /\ mode = "supervisor"
    /\ client.pc = "ensure_wifi"
    /\ \E link \in {"up", "reassociated", "timeout"} :
          client' = IF link = "timeout" THEN Raise(client, "wifi")
                    ELSE [client EXCEPT !.pc = "ws_connect"]
    /\ UNCHANGED <<mode, server_vars>>

WsConnect ==
    /\ mode = "supervisor"
    /\ client.pc = "ws_connect"
    /\ \E net \in SessionNetworks :
          LET r == connect(net)
          IN  client' = IF r.returned
                        THEN [client EXCEPT !.pc = "send_start", !.ws = "open",
                                            !.sock = "open"]
                        ELSE Raise(client, "handshake")
    /\ UNCHANGED <<mode, server_vars>>

SendStart ==
    /\ mode = "supervisor"
    /\ client.pc = "send_start"
    /\ \E sent \in BOOLEAN :
          client' = IF sent THEN [client EXCEPT !.pc = "build_i2s"]
                    ELSE Raise(client, "send")
    /\ UNCHANGED <<mode, server_vars>>

BuildI2S ==
    /\ mode = "supervisor"
    /\ client.pc = "build_i2s"
    /\ \E built \in BOOLEAN :
          client' = IF built THEN [client EXCEPT !.pc = "loop", !.audio_in = "open"]
                    ELSE Raise(client, "capture")
    /\ UNCHANGED <<mode, server_vars>>

\* one iteration of the while loop, up to its await; a read that holds a
\* sample is converted before it is sent, and the conversion raises on its
\* first sample when PCM_EXTRACT_MODE has no branch in _read_i32
StreamLoop ==
    /\ mode = "supervisor"
    /\ client.pc = "loop"
    /\ \E outcome \in {"link_down", "read_error", "no_data", "sent", "send_error"} :
          client' = CASE outcome = "link_down"  -> Raise(client, "wifi")
                      [] outcome = "read_error" -> Raise(client, "capture")
                      [] outcome = "no_data"    -> client
                      [] OTHER ->
                             IF ~ExtractModeOk(client.PCM_EXTRACT_MODE)
                             THEN Raise(client, "layout")
                             ELSE IF outcome = "send_error"
                             THEN Raise(client, "send")
                             ELSE [client EXCEPT !.frames = Min(@ + 1, MaxFrames)]
    /\ UNCHANGED <<mode, server_vars>>

StreamExit ==
    /\ mode = "supervisor"
    /\ client.pc = "finally"
    /\ \E stop_ok \in BOOLEAN, frame_ok \in BOOLEAN, close_ok \in BOOLEAN,
          deinit_ok \in BOOLEAN :
          client' = StreamFinally(client, stop_ok, frame_ok, close_ok, deinit_ok)
    /\ UNCHANGED <<mode, server_vars>>

\* await asyncio.sleep(retry_s), the new retry_s, and the next stream_audio_once
Backoff ==
    /\ mode = "supervisor"
    /\ client.pc = "sleep"
    /\ Len(client.cycles) < MaxCycles
    /\ client' = EnterStream(
          [client EXCEPT !.cycles = Append(@, [delay |-> client.retry_s,
                                               streamed |-> client.frames > 0]),
                         !.retry_s = NextRetry(client)])
    /\ UNCHANGED <<mode, server_vars>>

NextClient ==
    \/ Boot
    \/ EnsureWifi
    \/ WsConnect
    \/ SendStart
    \/ BuildI2S
    \/ StreamLoop
    \/ StreamExit
    \/ Backoff

SpecClient == InitClient /\ [][NextClient]_vars

(***************************************************************************)
(* C11: the supervisor never gives up: after any failure of any step       *)
(* (Wi-Fi association including the initial one, handshake, frame send,    *)
(* capture set-up or read) it waits a bounded delay and calls              *)
(* stream_audio_once again; main() never terminates because of a failure.  *)
(***************************************************************************)
C11_SupervisorNeverStops ==
    mode = "supervisor" => client.pc # "terminated"

(***************************************************************************)
(* C12: the delay before the k-th reconnect is                             *)
(* min(RECONNECT_SECONDS_MIN * 2^(k-1), RECONNECT_SECONDS_MAX): it starts  *)
(* at the minimum, doubles after every cycle up to the maximum, stays in   *)
(* [min, max], never decreases, and is not reset by a cycle that streamed. *)
(***************************************************************************)
BackoffDelay(k) ==
    IF RECONNECT_SECONDS_MIN * (2 ^ (k - 1)) < RECONNECT_SECONDS_MAX
    THEN RECONNECT_SECONDS_MIN * (2 ^ (k - 1))
    ELSE RECONNECT_SECONDS_MAX

C12_BackoffDoubles ==
    (mode = "supervisor" /\ client.pc \notin {"boot", "terminated"}) =>
        /\ \A k \in DOMAIN client.cycles :
               /\ client.cycles[k].delay = BackoffDelay(k)
               /\ client.cycles[k].delay \in RECONNECT_SECONDS_MIN..RECONNECT_SECONDS_MAX
               /\ k > 1 => client.cycles[k].delay >= client.cycles[k - 1].delay
        /\ client.retry_s = BackoffDelay(Len(client.cycles) + 1)

\* five reconnects, the first two after sessions that streamed audio
C12_Witness ==
    /\ mode = "supervisor"
    /\ Len(client.cycles) >= 5
    /\ client.cycles[1].streamed
    /\ client.cycles[2].streamed
    /\ client.cycles[3].delay = 8
    /\ client.cycles[5].delay = RECONNECT_SECONDS_MAX

(***************************************************************************)
(* C20: every exit from stream_audio_once runs the whole teardown in       *)
(* order: with a transport open, a Stop message is attempted and the       *)
(* transport is closed, the socket being closed even when the Stop or the  *)
(* close frame cannot be sent; with the capture device open, it is         *)
(* released; no failure inside the teardown propagates or skips a later    *)
(* step, and the supervisor then enters its backoff.                       *)
(***************************************************************************)
TeardownSteps(C) ==
    (IF C.ws # "none" THEN <<"stop", "close_frame", "sock_close">> ELSE <<>>)
        \o (IF C.audio_in # "none" THEN <<"deinit">> ELSE <<>>)

C20Step ==
    mode = "supervisor" =>
        /\ (client.failed = "none" /\ client'.failed # "none" /\ client.pc # "boot") =>
               /\ client'.pc = "finally"
               /\ client'.ws = client.ws /\ client'.audio_in = client.audio_in
        /\ client.pc = "finally" =>
               /\ client'.pc = "sleep"
               /\ [i \in DOMAIN client'.teardown |-> client'.teardown[i].step]
                      = TeardownSteps(client)
               /\ \A i \in DOMAIN client'.teardown :
                      /\ (client'.teardown[i].step = "sock_close" /\ client'.teardown[i].ok)
                             => client'.sock = "closed"
                      /\ (client'.teardown[i].step = "deinit" /\ client'.teardown[i].ok)
                             => client'.audio_in = "released"
        /\ client.pc = "sleep" => client'.pc = "ensure_wifi"

C20_TeardownRunsInOrder == [][C20Step]_vars

\* a session that failed while streaming; its Stop and close frame could not be sent
C20_Witness ==
    /\ mode = "supervisor"
    /\ client.pc = "sleep"
    /\ client.failed = "send"
    /\ client.frames > 0
    /\ client.teardown = <<[step |-> "stop", ok |-> FALSE],
                           [step |-> "close_frame", ok |-> FALSE],
                           [step |-> "sock_close", ok |-> TRUE],
                           [step |-> "deinit", ok |-> TRUE]>>
    /\ client.sock = "closed"
    /\ client.audio_in = "released"

(***************************************************************************)
(* C21: a PCM_EXTRACT_MODE that is neither of the two layouts makes the    *)
(* conversion fail on its first sample, so that no frame is ever sent, and *)
(* ends the current session; after this error the supervisor makes no      *)
(* further connection attempt.                                             *)
(***************************************************************************)
C21Step ==
    mode = "supervisor" =>
        /\ ~ExtractModeOk(client.PCM_EXTRACT_MODE) => client'.frames = 0
        /\ (client.failed = "none" /\ client'.failed = "layout") =>
               client'.pc = "finally"
        /\ client.failed = "layout" => client'.pc # "ensure_wifi"

C21_LayoutErrorNotRetried == [][C21Step]_vars

(***************************************************************************)
(* C22: every frame the client sends holds a full chunk of samples         *)
(* (PCM_CHUNK_BYTES bytes) whatever the capture read returned, a read      *)
(* shorter than a full chunk included; and a null or non-positive read     *)
(* sends no frame and leaves the filter history and the gain unchanged.    *)
(***************************************************************************)
C22Step ==
    mode = "dsp" =>
        /\ client'.frame # <<>> => Len(client'.frame) = PCM_CHUNK_BYTES
        /\ (client'.n = <<>> \/ client'.n[1] <= 0) =>
               /\ client'.frame = <<>>
               /\ client'.prev_x = client.prev_x
               /\ client'.prev_y = client.prev_y
               /\ client'.auto_gain_q8 = client.auto_gain_q8

C22_FramesAreFullChunks == [][C22Step]_vars

(***************************************************************************)
(* server.py: two connections served by the one event loop.  The handlers  *)
(* interleave at their awaits; each has its own locals, and all of them    *)
(* name their files by build_output_path in the one output directory, from *)
(* the device id of the connection and the second of the clock.            *)
(***************************************************************************)
MaxTicks == 1     \* seconds the clock advances while the connections are served

\* the device id of the first connection
FirstDevice == <<"e", "/", "1">>

\* device ids the second connection may give: none, the same id, and one that
\* differs only in a character build_output_path replaces
DeviceIds == {UnknownDevice, FirstDevice, <<"e", "_", "1">>}

InitTwo ==
    /\ mode = "assistant"
    /\ asr_enabled = TRUE
    /\ \E device \in DeviceIds :
          sess = [c \in {1, 2} |->
                    [NewSession(TRUE, Scenario(MaxExtraSpeech)) EXCEPT
                        !.logged = FALSE,
                        !.device = IF c = 1 THEN FirstDevice ELSE device]]
    /\ detector = DefaultTurnDetector
    /\ hist = <<>>
    /\ gate_in = NewTurnStats
    /\ gate_out = <<>>
    /\ client = <<>>

\* the clock of the server passes a second
Tick ==
    /\ \E c \in Conns : sess[c].now < MaxTicks
    /\ sess' = [c \in Conns |-> [sess[c] EXCEPT !.now = @ + 1]]
    /\ UNCHANGED <<client, mode, asr_enabled, detector, hist, gate_in, gate_out>>

NextTwo ==
    \/ \E c \in Conns : Accept(c)
    \/ \E c \in Conns : Recv(c)
    \/ \E c \in Conns : Handle(c)
    \/ \E c \in Conns : AsrReturn(c)
    \/ \E c \in Conns : HandlerEnd(c)
    \/ Tick

SpecTwo == InitTwo /\ [][NextTwo]_vars

(***************************************************************************)
(* C23: sessions are independent under any interleaving of two             *)
(* connections: while a Transcriber call is outstanding on one connection  *)
(* the other can still take and process its messages; a step of one        *)
(* handler leaves the locals of the other session (detector, TurnStats,    *)
(* in_turn, tts_playing, sink handles) unchanged; and no session has a     *)
(* file open, or hands a file to the Transcriber, that another session has *)
(* open as a sink.                                                         *)
(***************************************************************************)
\* the paths of the files session c has open
OpenPaths(c) ==
    {SinkPath(sess[c], h) : h \in {k \in DOMAIN sess[c].sinks : sess[c].sinks[k].open}}

\* the locals of a session, the clock left out
Locals(S) == [S EXCEPT !.now = 0]

C23Step ==
    (mode = "assistant" /\ Cardinality(Conns) > 1) =>
        \A a \in Conns, b \in Conns :
            a # b =>
                /\ sess[a].pc = "transcribe" =>
                       /\ sess[b].pc = "accept" => ENABLED Accept(b)
                       /\ sess[b].pc = "handle" => ENABLED Handle(b)
                       /\ (sess[b].pc = "recv" /\ ClientMsgs(sess[b]) # {}) =>
                              ENABLED Recv(b)
                /\ Locals(sess'[a]) # Locals(sess[a]) =>
                       Locals(sess'[b]) = Locals(sess[b])
                /\ OpenPaths(a)' \cap OpenPaths(b)' = {}
                /\ sess'[a].pc = "transcribe" =>
                       SinkPath(sess'[a], sess'[a].turn_path) \notin OpenPaths(b)'

C23_SessionsIndependent == [][C23Step]_vars

(***************************************************************************)
(* C24: in handle_ws_assistant, whenever the handler is between two        *)
(* messages, the turn sink is open iff in_turn iff the detector is         *)
(* Speaking, and at most one turn sink is open (the open turn sinks are    *)
(* turn_wav alone in a turn and none outside); exactly one raw sink,       *)
(* raw_wav, is open from the acceptance of the path until the session      *)
(* ends; a chunk gives turn_start only outside a turn and turn_end only    *)
(* inside one, so the two alternate, starting with turn_start; and the     *)
(* file handed to the Transcriber is a turn file that has been closed.     *)
(***************************************************************************)
\* the handles of the sinks of one kind that session S has open
OpenSinks(S, kind) ==
    {h \in DOMAIN S.sinks : S.sinks[h].kind = kind /\ S.sinks[h].open}

\* the handler waits for a message or has taken one and not yet processed it
BetweenMessages(S) == S.pc \in {"recv", "handle"}

C24Step ==
    mode = "assistant" =>
        \A c \in Conns :
            LET S == sess[c]
                T == sess'[c]
            IN  /\ BetweenMessages(T) =>
                       /\ OpenSinks(T, "turn") = IF T.in_turn THEN {T.turn_wav} ELSE {}
                       /\ T.in_turn <=> T.detector.active
                /\ T.pc \notin {"accept", "done"} => OpenSinks(T, "raw") = {T.raw_wav}
                /\ (S.pc = "handle" /\ T.pc # "handle" /\ S.cur.kind = "binary") =>
                       LET events == Range(T.trace) \cap {"turn_start", "turn_end"}
                       IN  /\ "turn_start" \in events =>
                                  /\ ~S.in_turn
                                  /\ events = {"turn_start"}
                                  /\ NumSinksBy(T, "turn_start")
                                         = NumSinksBy(S, "turn_start") + 1
                           /\ "turn_end" \in events =>
                                  /\ S.in_turn
                                  /\ ~T.in_turn
                                  /\ NumSinksBy(T, "turn_start") = NumSinksBy(S, "turn_start")
                /\ T.pc = "transcribe" =>
                       /\ T.turn_path # 0
                       /\ T.sinks[T.turn_path].kind = "turn"
                       /\ ~T.sinks[T.turn_path].open
                       /\ \A h \in DOMAIN T.sinks :
                              T.sinks[h].open => SinkPath(T, h) # SinkPath(T, T.turn_path)

C24_SinksFollowTurns == [][C24Step]_vars

\* the second turn of a session is being transcribed: both turn sinks are
\* closed, and of the two raw sinks (connect, start) only the later is open
C24_Witness ==
    /\ mode = "assistant"
    /\ \E c \in Conns :
          /\ sess[c].pc = "transcribe"
          /\ NumSinksBy(sess[c], "turn_start") = 2
          /\ NumSinksBy(sess[c], "start") = 1
          /\ OpenSinks(sess[c], "turn") = {}
          /\ OpenSinks(sess[c], "raw") = {sess[c].raw_wav}
          /\ sess[c].sinks[sess[c].raw_wav].by = "start"

(***************************************************************************)
(* C25: TurnStats counts exactly the chunks from the one that gives        *)
(* turn_start through the one that gives turn_end: the turn_start chunk    *)
(* starts the count at 1, every later chunk of the turn adds 1 (and 1 to   *)
(* voiced_frames if it is voiced), and a chunk outside a turn, the onset   *)
(* chunks before turn_start included, is neither counted nor written to    *)
(* the turn sink.  So at every turn_end total_frames >= silence_frames + 1 *)
(* and voiced_frames >= 1, and too_short is false.                         *)
(***************************************************************************)
C25Step ==
    mode = "assistant" =>
        \A c \in Conns :
            LET S == sess[c]
                T == sess'[c]
            IN  (S.pc = "handle" /\ T.pc # "handle" /\ S.cur.kind = "binary") =>
                    LET events == Range(T.trace)
                        v == IF frame_rms_s16le(S.cur.data) >= S.detector.threshold
                             THEN 1 ELSE 0
                    IN  /\ ("turn_start" \in events /\ T.pc # "done") =>
                               /\ T.turn_stats.total_frames = 1
                               /\ T.turn_stats.voiced_frames = 1
                               /\ Count(T.trace, "turn_write") = 1
                        /\ ("turn_start" \notin events /\ S.in_turn) =>
                               /\ T.turn_stats.total_frames = S.turn_stats.total_frames + 1
                               /\ T.turn_stats.voiced_frames = S.turn_stats.voiced_frames + v
                               /\ Count(T.trace, "turn_write") = 1
                        /\ ("turn_start" \notin events /\ ~S.in_turn) =>
                               /\ T.turn_stats = S.turn_stats
                               /\ "stats_add" \notin events
                               /\ "turn_write" \notin events
                        /\ "turn_end" \in events =>
                               /\ T.turn_stats.total_frames >= S.detector.silence_frames + 1
                               /\ T.turn_stats.voiced_frames >= 1
                               /\ ~TooShort(T.turn_stats)
                               /\ \A i \in DOMAIN T.outbox :
                                      T.outbox[i].type = "asr_skipped" =>
                                          ~T.outbox[i].body.too_short

C25_TurnStatsCountTheTurn == [][C25Step]_vars

\* the shortest turn has just ended: the turn_start chunk and silence_frames
\* unvoiced chunks, dropped by the gate as unvoiced and not as short
C25_Witness ==
    /\ mode = "assistant"
    /\ \E c \in Conns :
          /\ "turn_end" \in Range(sess[c].trace)
          /\ sess[c].turn_stats.total_frames = sess[c].detector.silence_frames + 1
          /\ sess[c].turn_stats.voiced_frames = 1
          /\ sess[c].outbox # <<>>
          /\ sess[c].outbox[1].type = "asr_skipped"
          /\ sess[c].outbox[1].body.too_unvoiced
          /\ ~sess[c].outbox[1].body.too_short

=============================================================================
